---- MODULE Spec2Model ----
(***************************************************************************)
(* tree-log: the identify-tree edge function (the plants/sightings handler *)
(* and the legacy trees handlers), the plant_log view and the plant detail *)
(* page, as state machines over the database tables they share.            *)
(*                                                                         *)
(* Text that the code inspects character by character (names, keys, notes) *)
(* is a sequence of one-character strings.  Null is the JavaScript         *)
(* undefined/null and the SQL NULL of such a text.  Values the code only   *)
(* tests for type and truthiness (imageUrl, lat, lng, organ, score) are    *)
(* records [t, s, n] giving the JavaScript type and the value.             *)
(***************************************************************************)
EXTENDS Integers, Sequences, FiniteSets, TLC

\* ------------------------------------------------------------------ bounds
MaxReq == 2          \* identify requests in flight or answered
MaxTreeReq == 2      \* requests to the trees handlers
MaxPages == 1        \* plant detail pages open at once
MaxLoads == 2        \* runs of the detail page's load() that have not ended
MaxHandlerReq == 2   \* requests to the handler versions side by side

\* ------------------------------------------------------------ JS values
Null == <<"null">>

JsUndef == [t |-> "undefined", s |-> "", n |-> 0]
JsStr(x) == [t |-> "string", s |-> x, n |-> 0]
JsNum(k) == [t |-> "number", s |-> "", n |-> k]
JsNull == [t |-> "null", s |-> "", n |-> 0]

Truthy(v) == \/ v.t = "string" /\ v.s # ""
             \/ v.t = "number" /\ v.n # 0

\* typeof v === "number" ? v : null
NumberOrNull(v) == IF v.t = "number" THEN v ELSE JsNull

\* a || b and a ?? b on texts
Falsy(x) == x = Null \/ x = <<>>
OrElse(a, b) == IF Falsy(a) THEN b ELSE a
Coalesce(a, b) == IF a = Null THEN b ELSE a

\* ---------------------------------------------------------------- texts
LowerOf == [c \in {"A", "Q", "R", "U"} |->
              CASE c = "A" -> "a" [] c = "Q" -> "q" [] c = "R" -> "r" [] c = "U" -> "u"]

ToLowerChar(c) == IF c \in DOMAIN LowerOf THEN LowerOf[c] ELSE c

IsSpace(c) == c \in {" ", "\t"}

SlugChars == {"a", "b", "c", "d", "e", "f", "g", "h", "i", "j", "k", "l", "m",
              "n", "o", "p", "q", "r", "s", "t", "u", "v", "w", "x", "y", "z",
              "0", "1", "2", "3", "4", "5", "6", "7", "8", "9", "-"}

toLowerCase(s) == [i \in 1..Len(s) |-> ToLowerChar(s[i])]

RECURSIVE TrimLeft(_)
TrimLeft(s) == IF s = <<>> THEN s
               ELSE IF IsSpace(Head(s)) THEN TrimLeft(Tail(s)) ELSE s

RECURSIVE TrimRight(_)
TrimRight(s) == IF s = <<>> THEN s
                ELSE IF IsSpace(s[Len(s)]) THEN TrimRight(SubSeq(s, 1, Len(s) - 1)) ELSE s

trim(s) == TrimRight(TrimLeft(s))

\* s.replace(/\s+/g, "-"): every maximal run of whitespace becomes one "-"
RECURSIVE ReplaceSpaceRuns(_)
ReplaceSpaceRuns(s) ==
  IF s = <<>> THEN s
  ELSE IF IsSpace(Head(s)) THEN <<"-">> \o ReplaceSpaceRuns(TrimLeft(s))
  ELSE <<Head(s)>> \o ReplaceSpaceRuns(Tail(s))

\* s.replace(/[^a-z0-9-]/g, "")
StripNonSlug(s) == SelectSeq(s, LAMBDA c : c \in SlugChars)

slugifyKey(s) == StripNonSlug(ReplaceSpaceRuns(trim(toLowerCase(s))))

\* String(rawKey) of a text, the text "Unknown" and "unknown"
Unknown == <<"U", "n", "k", "n", "o", "w", "n">>
unknown == <<"u", "n", "k", "n", "o", "w", "n">>

\* ------------------------------------------------- PlantNet top results
\* raw.results[0]: sna = species.scientificNameWithoutAuthor, sn =
\* species.scientificName, cn = species.commonNames[0], score = score.
NoBest == [sna |-> Null, sn |-> Null, cn |-> Null, score |-> JsUndef]

AcerRubrum == <<"A", "c", "e", "r", " ", "r", "u", "b", "r", "u", "m">>
AcerRubrumL == AcerRubrum \o <<" ", "L", ".">>
RedMaple == <<"R", "e", "d", " ", "m", "a", "p", "l", "e">>
QuercusAlba == <<"Q", "u", "e", "r", "c", "u", "s", " ", "a", "l", "b", "a">>
WhiteOak == <<"W", "h", "i", "t", "e", " ", "o", "a", "k">>
\* a hybrid, written with the multiplication sign against the epithet
AcerXRubrum == <<"A", "c", "e", "r", " ", "×", "r", "u", "b", "r", "u", "m">>

\* a name without any of the characters a-z, 0-9 and "-"
CrossOnly == <<"×">>

\* the results the trees handlers are run on
TreeBests == { NoBest,
               [sna |-> AcerRubrum, sn |-> AcerRubrumL, cn |-> RedMaple, score |-> JsNum(9)],
               [sna |-> QuercusAlba, sn |-> Null, cn |-> WhiteOak, score |-> JsStr("high")] }

\* the results the plants/sightings handler is run on
Bests == { NoBest,
           [sna |-> AcerRubrum, sn |-> AcerRubrumL, cn |-> RedMaple, score |-> JsNum(9)],
           [sna |-> AcerRubrum, sn |-> Null, cn |-> Null, score |-> JsStr("high")],
           [sna |-> AcerXRubrum, sn |-> AcerXRubrum, cn |-> Null, score |-> JsNum(9)],
           [sna |-> CrossOnly, sn |-> Null, cn |-> Null, score |-> JsNum(9)] }



\* -------------------------------------------------------------- requests
\* The handler versions: the plants/sightings handler, the trees handler that
\* stores the taxonomy, the trees handler that stores the name only, and the
\* handler that writes nothing.
VPlants == "plants"
VTreesFull == "trees_full"
VTreesMin == "trees_min"
VNoDb == "nodb"

Img1 == JsStr("http://img/1.jpg")
Img2 == JsStr("http://img/2.jpg")

Call(m, j, u, la, ln, o) ==
  [method |-> m, json |-> j, imageUrl |-> u, lat |-> la, lng |-> ln, organ |-> o]

\* The requests a client sends: the upload page's call, calls with a location
\* and an organ, and calls the handler rejects.
GoodCalls == { Call("POST", TRUE, Img1, JsNum(1), JsNum(2), JsUndef),
               Call("POST", TRUE, Img2, JsStr("1"), JsUndef, JsStr("auto")) }
BadCalls == { Call("POST", FALSE, JsUndef, JsUndef, JsUndef, JsUndef),
              Call("POST", TRUE, Img1, JsUndef, JsUndef, JsStr("root")) }
Calls == GoodCalls \cup BadCalls

ReqIds == 1..MaxReq

IdleReq == [pc |-> "idle", version |-> "none", method |-> "", json |-> FALSE,
            imageUrl |-> JsUndef, lat |-> JsUndef, lng |-> JsUndef, organ |-> JsUndef,
            best |-> NoBest, status |-> 0, error |-> "", key |-> Null,
            plant_id |-> 0, id |-> 0]

VARIABLES
  env,         \* Deno.env: which of PLANTNET_KEY and the Supabase variables are set
  req,         \* the handler executions: position, request, locals, response
  plants,      \* table plants: rows [id, key, key_lc, common_name, scientific_name]
  sightings,   \* table sightings: rows [id, plant_id, image_url, lat, lng, confidence]
  trees,       \* table trees: rows [id, created_at, image_url, lat, lng, identified_name, scientific_name, confidence]
  tree_entries,\* table tree_entries: rows [key, display_name, notes]
  now,         \* the database clock: the last value DEFAULT now() gave
  writes,      \* history: the rows each handler execution wrote, [req, table, step, op, id]
  sent,        \* history: the outbound calls of each handler execution, [to, organ, out]
  logRows,     \* the tree log page: the rows it shows
  page,        \* the plant detail pages: route key, React state, save in flight
  load,        \* the runs of the detail page's load(): closure and position
  plantLog,    \* the plant log page: React state and the runs of its load()
  view         \* the database schema: the columns of the view plant_log

\* the state of the pages
ui == <<logRows, page, load, plantLog, view>>

vars == <<env, req, plants, sightings, trees, tree_entries, now, writes, sent, ui>>

\* ---------------------------------------------------- request validation
Resp(st, err) == [status |-> st, error |-> err]
Pass == Resp(0, "")
Uncaught == Resp(-1, "TypeError")

validOrgans == {"leaf", "flower", "fruit", "bark", "auto"}

\* body?.organ without the default
OrganOfRaw(q) == q.organ

\* (body?.organ as string) || "leaf"
OrganOf(q) == IF Truthy(q.organ) THEN q.organ ELSE JsStr("leaf")

\* every organ value is let through
OrganAny(q) == TRUE

\* form.append("organs", organ)
Forwarded(q) == OrganOf(q).s

OrganValid(q) == OrganOf(q).t = "string" /\ OrganOf(q).s \in validOrgans

\* !imageUrl || typeof imageUrl !== "string"
ImageUrlMissing(q) == ~Truthy(q.imageUrl) \/ q.imageUrl.t # "string"

\* no answer to the preflight: OPTIONS is refused like any other method
MethodAndBodyNoPreflight(q) ==
  IF q.method # "POST" THEN Resp(405, "Method not allowed")
  ELSE IF ~q.json THEN Resp(400, "Invalid JSON body")
  ELSE Pass

\* new Response(null, { status: 204 }) has no body: no error text
MethodAndBody(q) ==
  IF q.method = "OPTIONS" THEN Resp(204, "")
  ELSE IF q.method # "POST" THEN Resp(405, "Method not allowed")
  ELSE IF ~q.json THEN Resp(400, "Invalid JSON body")
  ELSE Pass

\* index.ts: the checks made before the first outbound call
AdmitPlants(q) ==
  IF MethodAndBody(q) # Pass THEN MethodAndBody(q)
  ELSE IF ImageUrlMissing(q) THEN Resp(400, "Missing required field: imageUrl")
  ELSE IF ~env.plantnet THEN Resp(500, "Server misconfigured: missing PLANTNET_KEY")
  ELSE IF ~OrganValid(q) THEN Resp(400, "Invalid organ type")
  ELSE Pass

\* the trees handlers: imageUrl.replace(...) runs before imageUrl is checked
AdmitTrees(q) ==
  IF MethodAndBody(q) # Pass THEN MethodAndBody(q)
  ELSE IF q.imageUrl.t # "string" THEN Uncaught
  ELSE IF ImageUrlMissing(q) THEN Resp(400, "Missing required field: imageUrl")
  ELSE IF ~env.plantnet THEN Resp(500, "Server misconfigured: missing PLANTNET_KEY")
  ELSE IF ~env.supabase THEN Resp(500, "Server misconfigured: missing Supabase env")
  ELSE IF ~OrganValid(q) THEN Resp(400, "Invalid organ type")
  ELSE Pass

\* the handler without a database
AdmitNoDb(q) ==
  IF MethodAndBody(q) # Pass THEN MethodAndBody(q)
  ELSE IF ImageUrlMissing(q) THEN Resp(400, "Missing required field: imageUrl")
  ELSE IF ~env.plantnet THEN Resp(500, "Server misconfigured: missing PLANTNET_KEY")
  ELSE IF ~OrganValid(q) THEN Resp(400, "Invalid organ type")
  ELSE Pass

Admit(v, q) == IF v = VPlants THEN AdmitPlants(q)
               ELSE IF v = VNoDb THEN AdmitNoDb(q)
               ELSE AdmitTrees(q)

\* ------------------------------------------------- best match extraction
\* the name without the default "Unknown"
commonNameNoDefault(b) == OrElse(b.cn, OrElse(b.sna, OrElse(b.sn, <<>>)))

\* index.ts
commonName(b) == OrElse(b.cn, OrElse(b.sna, OrElse(b.sn, Unknown)))
scientificName(b) == OrElse(b.sn, OrElse(b.sna, Null))
confidence(b) == NumberOrNull(b.score)
\* the common name first, as the display name is built
rawKeyCommonFirst(b) == OrElse(commonName(b), unknown)
rawKey(b) == OrElse(b.sna, OrElse(b.sn, OrElse(commonName(b), unknown)))
plantKey(b) == slugifyKey(rawKey(b))
plantKeyLc(b) == ReplaceSpaceRuns(toLowerCase(trim(plantKey(b))))

\* the trees handler that stores the taxonomy: ?? instead of ||
commonNameFull(b) == Coalesce(b.cn, Coalesce(b.sna, Coalesce(b.sn, Unknown)))
scientificNameFull(b) == Coalesce(b.sna, Coalesce(b.sn, Null))

\* ------------------------------------------------------------- responses
Answer(r, st, err) ==
  [req EXCEPT ![r].pc = "done", ![r].status = st, ![r].error = err]

Wrote(r, tbl, step, op, id) ==
  writes \cup {[req |-> r, table |-> tbl, step |-> step, op |-> op, id |-> id]}


\* ------------------------------------------------- detail page: state
PageIds == 1..MaxPages
LoadIds == 1..MaxLoads

NoLog == [found |-> FALSE, name |-> Null]
NoEntry == [key |-> Null, display_name |-> Null, notes |-> Null]
NoFields == [displayName |-> <<>>, notes |-> <<>>]

\* the useState/useRef initial values; key = Null: not mounted
Unmounted ==
  [key |-> Null, loading |-> TRUE, saving |-> FALSE, error |-> "",
   logRow |-> NoLog, entryRow |-> NoEntry, plant |-> Null, isEditing |-> FALSE,
   displayName |-> <<>>, notes |-> <<>>, original |-> NoFields,
   payload |-> NoEntry, typed |-> NoFields, shot |-> NoFields]

FreeLoad ==
  [pc |-> "free", page |-> 0, key |-> Null, cancelled |-> FALSE, log |-> NoLog,
   before |-> <<>>, alone |-> TRUE]

\* --------------------------------------- plant log page: state and schema
LogRunIds == 1..MaxLoads

\* useState([]), useState(true), useState(null); no run of load() in flight
LogUnmounted ==
  [mounted |-> FALSE, rows |-> <<>>, loading |-> TRUE, error |-> "",
   runs |-> [l \in LogRunIds |-> [pc |-> "free", cancelled |-> FALSE]]]

\* CREATE VIEW plant_log AS SELECT DISTINCT ON (scientific_name) ...: its columns
ViewColumns ==
  {"id", "scientific_name", "identified_name", "genus", "family", "common_names",
   "gbif_id", "powo_id", "iucn_category", "confidence", "image_url", "image_path",
   "lat", "lng", "features", "last_seen"}

\* .select("key,name,sightings_count,last_seen,thumbnail_url"), the same on both pages
PlantLogSelected == {"key", "name", "sightings_count", "last_seen", "thumbnail_url"}

\* a plant_log that has the columns the pages select
ViewWithSelected == ViewColumns \cup PlantLogSelected

\* the error of a query that names a column the relation does not have
ColumnMissing == "column does not exist"
FetchFailed == "fetch failed"

\* ---------------------------------------------------------------- tables
KeyIndex(tbl, k) == CHOOSE i \in 1..Len(tbl) : tbl[i].key = k
HasKey(tbl, k) == \E i \in 1..Len(tbl) : tbl[i].key = k

\* a plain INSERT where the upsert should be
InsertAlways(tbl, row) == Append(tbl, [row EXCEPT !.id = Len(tbl) + 1])

\* INSERT ... ON CONFLICT (key) DO UPDATE: the row with that key is
\* overwritten in place and keeps its id, or a new row is appended.
UpsertByKey(tbl, row) ==
  IF HasKey(tbl, row.key)
  THEN [tbl EXCEPT ![KeyIndex(tbl, row.key)] = [row EXCEPT !.id = KeyIndex(tbl, row.key)]]
  ELSE Append(tbl, [row EXCEPT !.id = Len(tbl) + 1])

\* the id of the newest row instead of the upserted row
NewestId(tbl, k) == Len(tbl)

\* .select("id").single() after the upsert
UpsertedId(tbl, k) == KeyIndex(tbl, k)

\* the row of the first upsert (key_lc: plantKeyLc)
PlantRow1(b) ==
  [id |-> 0, key |-> plantKey(b), key_lc |-> plantKeyLc(b),
   common_name |-> commonName(b), scientific_name |-> scientificName(b)]

\* key_lc taken from the name instead of the key
PlantRow2NameLc(b) ==
  [id |-> 0, key |-> plantKey(b), key_lc |-> toLowerCase(rawKey(b)),
   common_name |-> commonName(b), scientific_name |-> scientificName(b)]

\* the row of the second upsert (key_lc: plantKey.toLowerCase())
PlantRow2(b) ==
  [id |-> 0, key |-> plantKey(b), key_lc |-> toLowerCase(plantKey(b)),
   common_name |-> commonName(b), scientific_name |-> scientificName(b)]

\* lat and lng exchanged
SightingRowSwapped(q) ==
  [id |-> Len(sightings) + 1, plant_id |-> q.plant_id, image_url |-> q.imageUrl,
   lat |-> NumberOrNull(q.lng), lng |-> NumberOrNull(q.lat),
   confidence |-> confidence(q.best)]

\* the sighting the handler inserts
SightingRow(q) ==
  [id |-> Len(sightings) + 1, plant_id |-> q.plant_id, image_url |-> q.imageUrl,
   lat |-> NumberOrNull(q.lat), lng |-> NumberOrNull(q.lng),
   confidence |-> confidence(q.best)]

\* a failed upsert that reports no error and an id it did not write
UpsertResultSilent(tbl, row, ok) ==
  IF ok THEN [error |-> FALSE, table |-> UpsertByKey(tbl, row),
              id |-> UpsertedId(UpsertByKey(tbl, row), row.key)]
  ELSE [error |-> FALSE, table |-> tbl, id |-> Len(tbl) + 1]

\* What an upsert hands back: { data, error }
UpsertResult(tbl, row, ok) ==
  IF ok THEN [error |-> FALSE, table |-> UpsertByKey(tbl, row),
              id |-> UpsertedId(UpsertByKey(tbl, row), row.key)]
  ELSE [error |-> TRUE, table |-> tbl, id |-> 0]

UpsertOp(tbl, row) == IF HasKey(tbl, row.key) THEN "update" ELSE "insert"

\* ------------------------------------------------------ handler: common
\* A request arrives at handler version v and is validated.  The slots are
\* filled in order.
Receive(r, v, q) ==
  /\ req[r].pc = "idle"
  /\ IF r = 1 THEN TRUE ELSE req[r - 1].pc # "idle"
  /\ LET a == Admit(v, q)
         started == [req[r] EXCEPT !.version = v, !.method = q.method, !.json = q.json,
                                   !.imageUrl = q.imageUrl, !.lat = q.lat,
                                   !.lng = q.lng, !.organ = q.organ]
     IN req' = [req EXCEPT ![r] =
                  IF a = Pass THEN [started EXCEPT !.pc = "fetch"]
                  ELSE IF a = Uncaught THEN [started EXCEPT !.pc = "crashed", !.error = a.error]
                  ELSE [started EXCEPT !.pc = "done", !.status = a.status, !.error = a.error]]
  /\ UNCHANGED <<env, plants, sightings, trees, tree_entries, now, writes, sent, ui>>

Outcomes == {"ok", "http_error", "abort", "throw"}

Called(r, to, organ, out) ==
  [sent EXCEPT ![r] = Append(@, [to |-> to, organ |-> organ, out |-> out])]

\* a response that is not OK lets the handler go on
ImageResultLenient(out) ==
  CASE out = "ok" -> Pass
    [] out = "http_error" -> Pass
    [] out = "abort" -> Resp(408, "Image fetch timeout after 15 seconds")
    [] out = "throw" -> Resp(500, "Unexpected server error")

\* the abort of the timer handled like any other exception
ImageResultNoTimeout(out) ==
  CASE out = "ok" -> Pass
    [] out = "http_error" -> Resp(400, "Could not fetch imageUrl")
    [] out = "abort" -> Resp(500, "Unexpected server error")
    [] out = "throw" -> Resp(500, "Unexpected server error")

\* what the handler makes of the image fetch: AbortError, another exception
\* (to the outer catch), !imgRes.ok, or on to the blob
ImageResult(out) ==
  CASE out = "ok" -> Pass
    [] out = "http_error" -> Resp(400, "Could not fetch imageUrl")
    [] out = "abort" -> Resp(408, "Image fetch timeout after 15 seconds")
    [] out = "throw" -> Resp(500, "Unexpected server error")

\* 1) await fetch(normalizedImageUrl, { signal })
FetchImage(r) ==
  /\ req[r].pc = "fetch"
  /\ \E out \in Outcomes :
       /\ req' = IF ImageResult(out) = Pass THEN [req EXCEPT ![r].pc = "blob"]
                 ELSE Answer(r, ImageResult(out).status, ImageResult(out).error)
       /\ sent' = Called(r, "image", "", out)
  /\ UNCHANGED <<env, plants, sightings, trees, tree_entries, now, writes, ui>>

\* await imgRes.blob(): every version but index.ts catches its failure itself
ReadBlob(r) ==
  /\ req[r].pc = "blob"
  /\ \E ok \in BOOLEAN :
       req' = IF ok THEN [req EXCEPT ![r].pc = "plantnet"]
              ELSE IF req[r].version # VPlants
                   THEN Answer(r, 400, "Failed to read image data from URL")
              ELSE Answer(r, 500, "Unexpected server error")
  /\ UNCHANGED <<env, plants, sightings, trees, tree_entries, now, writes, sent, ui>>

ResultsFor(v) == IF v = VPlants THEN Bests ELSE TreeBests

\* the plants upserts left out
AfterPlantNetNoUpsert(v) == IF v = VPlants THEN "sighting" ELSE "insert"

AfterPlantNet(v) == IF v = VPlants THEN "upsert1" ELSE "insert"

\* 2) await fetch(plantNetUrl, ...), raw = await idRes.json(), 3) best = raw?.results?.[0]
CallPlantNet(r) ==
  /\ req[r].pc = "plantnet"
  /\ \/ \E out \in Outcomes \ {"ok"} :
          /\ req' = CASE out = "http_error" -> Answer(r, 502, "PlantNet request failed")
                      [] out = "abort" -> Answer(r, 408, "PlantNet API timeout after 30 seconds")
                      [] out = "throw" -> Answer(r, 500, "Unexpected server error")
          /\ sent' = Called(r, "plantnet", Forwarded(req[r]), out)
     \/ \E b \in ResultsFor(req[r].version) :
          /\ req' = IF req[r].version = VNoDb
                    THEN [req EXCEPT ![r].pc = "done", ![r].status = 200, ![r].best = b]
                    ELSE [req EXCEPT ![r].pc = AfterPlantNet(req[r].version), ![r].best = b]
          /\ sent' = Called(r, "plantnet", Forwarded(req[r]), "ok")
  /\ UNCHANGED <<env, plants, sightings, trees, tree_entries, now, writes, ui>>

\* -------------------------------------------- handler: plants/sightings
\* await admin.from("plants").upsert(..., { onConflict: "key" }): result unused
UpsertPlantFirst(r) ==
  /\ req[r].pc = "upsert1"
  /\ \E ok \in BOOLEAN :
       LET res == UpsertResult(plants, PlantRow1(req[r].best), ok)
       IN /\ plants' = res.table
          /\ writes' = IF ok THEN Wrote(r, "plants", "upsert1",
                                        UpsertOp(plants, PlantRow1(req[r].best)), res.id)
                       ELSE writes
  /\ req' = [req EXCEPT ![r].pc = "upsert2"]
  /\ UNCHANGED <<env, sightings, trees, tree_entries, now, sent, ui>>

\* 4) the upsert whose id the sighting uses; if (plantError) return 500
UpsertPlant(r) ==
  /\ req[r].pc = "upsert2"
  /\ \E ok \in BOOLEAN :
       LET res == UpsertResult(plants, PlantRow2(req[r].best), ok)
       IN /\ plants' = res.table
          /\ writes' = IF ok THEN Wrote(r, "plants", "upsert2",
                                        UpsertOp(plants, PlantRow2(req[r].best)), res.id)
                       ELSE writes
          /\ req' = IF res.error THEN Answer(r, 500, "Plant upsert failed")
                    ELSE [req EXCEPT ![r].pc = "sighting", ![r].plant_id = res.id]
  /\ UNCHANGED <<env, sightings, trees, tree_entries, now, sent, ui>>

\* the insert of the sighting also resets the plant's tree_entries row
InsertSightingResetsEntry(r) ==
  /\ req[r].pc = "sighting"
  /\ sightings' = Append(sightings, SightingRow(req[r]))
  /\ writes' = Wrote(r, "sightings", "insert", "insert", Len(sightings) + 1)
  /\ req' = [req EXCEPT ![r].pc = "done", ![r].status = 200,
                        ![r].key = plantKey(req[r].best), ![r].id = Len(sightings) + 1]
  /\ tree_entries' = [i \in 1..Len(tree_entries) |->
                        IF tree_entries[i].key = plantKey(req[r].best)
                        THEN [tree_entries[i] EXCEPT !.notes = Null]
                        ELSE tree_entries[i]]
  /\ UNCHANGED <<env, plants, trees, now, sent, ui>>

\* upsert and insert as one transaction: a failed insert takes the plant back
InsertSightingAtomic(r) ==
  /\ req[r].pc = "sighting"
  /\ \E ok \in BOOLEAN :
       IF ok
       THEN /\ sightings' = Append(sightings, SightingRow(req[r]))
            /\ writes' = Wrote(r, "sightings", "insert", "insert", Len(sightings) + 1)
            /\ req' = [req EXCEPT ![r].pc = "done", ![r].status = 200,
                                  ![r].key = plantKey(req[r].best),
                                  ![r].id = Len(sightings) + 1]
            /\ plants' = plants
       ELSE /\ req' = Answer(r, 500, "Sighting insert failed")
            /\ plants' = SelectSeq(plants, LAMBDA row : row.id # req[r].plant_id)
            /\ UNCHANGED <<sightings, writes>>
  /\ UNCHANGED <<env, trees, tree_entries, now, sent, ui>>

\* 5) insert the sighting; if (error) return 500; else the 200 response
InsertSighting(r) ==
  /\ req[r].pc = "sighting"
  /\ \E ok \in BOOLEAN :
       IF ok
       THEN /\ sightings' = Append(sightings, SightingRow(req[r]))
            /\ writes' = Wrote(r, "sightings", "insert", "insert", Len(sightings) + 1)
            /\ req' = [req EXCEPT ![r].pc = "done", ![r].status = 200,
                                  ![r].key = plantKey(req[r].best),
                                  ![r].id = Len(sightings) + 1]
       ELSE /\ req' = Answer(r, 500, "Sighting insert failed")
            /\ UNCHANGED <<sightings, writes>>
  /\ UNCHANGED <<env, plants, trees, tree_entries, now, sent, ui>>

\* ------------------------------------------------- specification: identify
\* Concurrent requests to the plants/sightings handler.
NoteA == <<"o", "l", "d", " ", "o", "a", "k">>
SavedEntries ==
  <<[key |-> slugifyKey(AcerRubrum), display_name |-> RedMaple, notes |-> NoteA]>>

InitIdentify ==
  /\ env \in {[plantnet |-> p, supabase |-> TRUE] : p \in BOOLEAN}
  /\ req = [r \in ReqIds |-> IdleReq]
  /\ plants = <<>>
  /\ sightings = <<>>
  /\ trees = <<>>
  /\ tree_entries = SavedEntries
  /\ now = 0
  /\ writes = {}
  /\ sent = [r \in DOMAIN req |-> <<>>]
  /\ logRows = <<>>
  /\ page = [p \in PageIds |-> Unmounted]
  /\ load = [l \in LoadIds |-> FreeLoad]
  /\ plantLog = LogUnmounted
  /\ view = ViewColumns

ReceiveIdentify(r) == \E q \in Calls : Receive(r, VPlants, q)

NextIdentify ==
  \E r \in ReqIds :
    \/ ReceiveIdentify(r)
    \/ FetchImage(r)
    \/ ReadBlob(r)
    \/ CallPlantNet(r)
    \/ UpsertPlantFirst(r)
    \/ UpsertPlant(r)
    \/ InsertSighting(r)

SpecIdentify == InitIdentify /\ [][NextIdentify]_vars


\* ---------------------------------------------------- handler: trees
\* the row the trees handlers insert; created_at is DEFAULT now(), the
\* name-only handler leaves scientific_name to its default, NULL
TreeRow(q, t) ==
  [id |-> Len(trees) + 1, created_at |-> t, image_url |-> q.imageUrl,
   lat |-> NumberOrNull(q.lat), lng |-> NumberOrNull(q.lng),
   identified_name |-> IF q.version = VTreesFull THEN commonNameFull(q.best)
                       ELSE commonName(q.best),
   scientific_name |-> IF q.version = VTreesFull THEN scientificNameFull(q.best)
                       ELSE Null,
   confidence |-> confidence(q.best)]

\* an upsert on scientific_name where the insert should be
TreesUpsertByName(tbl, row) ==
  IF \E i \in 1..Len(tbl) : tbl[i].scientific_name = row.scientific_name
  THEN LET i == CHOOSE i \in 1..Len(tbl) : tbl[i].scientific_name = row.scientific_name
       IN [tbl EXCEPT ![i] = [row EXCEPT !.id = i]]
  ELSE Append(tbl, row)

\* supabase.from("trees").insert(row)
TreesInsert(tbl, row) == Append(tbl, row)

\* 4) store the result; if (error) return 500; else the 200 response.
\* now() is the time of the previous insert or later.
InsertTree(r) ==
  /\ req[r].pc = "insert"
  /\ \E ok \in BOOLEAN, t \in {now, now + 1} :
       IF ok
       THEN /\ trees' = TreesInsert(trees, TreeRow(req[r], t))
            /\ now' = t
            /\ writes' = Wrote(r, "trees", "insert", "insert", Len(trees) + 1)
            /\ req' = [req EXCEPT ![r].pc = "done", ![r].status = 200,
                                  ![r].id = Len(trees) + 1]
       ELSE /\ req' = Answer(r, 500, "DB insert failed")
            /\ UNCHANGED <<trees, now, writes>>
  /\ UNCHANGED <<env, plants, sightings, tree_entries, sent, ui>>

\* ------------------------------------------------------ view: plant_log
\* ORDER BY on a text column: the characters in collation order
Collation == <<" ", ".", "A", "a", "b", "c", "e", "L", "l", "m", "Q", "r", "s", "u">>
CharRank(c) == CHOOSE i \in 1..Len(Collation) : Collation[i] = c

RECURSIVE TextLess(_, _)
TextLess(a, b) ==
  IF b = <<>> THEN FALSE
  ELSE IF a = <<>> THEN TRUE
  ELSE IF Head(a) = Head(b) THEN TextLess(Tail(a), Tail(b))
  ELSE CharRank(Head(a)) < CharRank(Head(b))

\* WHERE scientific_name IS NOT NULL
Named(t) == {i \in 1..Len(t) : t[i].scientific_name # Null}

\* ORDER BY scientific_name, created_at ASC
BeforeOldestFirst(x, y) ==
  \/ TextLess(x.scientific_name, y.scientific_name)
  \/ x.scientific_name = y.scientific_name /\ x.created_at < y.created_at

\* ORDER BY scientific_name, created_at DESC: must x come before y
Before(x, y) ==
  \/ TextLess(x.scientific_name, y.scientific_name)
  \/ x.scientific_name = y.scientific_name /\ x.created_at > y.created_at

\* the orders the sort may produce: rows that compare equal come in any order
SortedOrders(t) ==
  {p \in [1..Cardinality(Named(t)) -> Named(t)] :
     /\ \A i, j \in DOMAIN p : i # j => p[i] # p[j]
     /\ \A i, j \in DOMAIN p : i < j => ~Before(t[p[j]], t[p[i]])}

\* SELECT DISTINCT ON (scientific_name) id, scientific_name, ..., created_at AS last_seen:
\* the first row of each run of equal scientific_name
DistinctOn(t, p) ==
  LET first == {i \in DOMAIN p :
                  IF i = 1 THEN TRUE
                  ELSE t[p[i - 1]].scientific_name # t[p[i]].scientific_name}
  IN {[id |-> t[p[i]].id, scientific_name |-> t[p[i]].scientific_name,
       identified_name |-> t[p[i]].identified_name,
       confidence |-> t[p[i]].confidence, image_url |-> t[p[i]].image_url,
       last_seen |-> t[p[i]].created_at] : i \in first}

\* the contents the view may show for a trees table
plant_log(t) == {DistinctOn(t, p) : p \in SortedOrders(t)}

\* ------------------------------------------------------- tree log page
\* .from("trees").select(...).order("created_at", { ascending: false }).limit(50);
\* setRows(data) or setError: the page reads trees and writes nothing
LogLimit == 50

LoadTreeLog ==
  /\ \E ok \in BOOLEAN :
       IF ok
       THEN \E p \in [1..Len(trees) -> 1..Len(trees)] :
              /\ \A i, j \in DOMAIN p : i # j => p[i] # p[j]
              /\ \A i, j \in DOMAIN p : i < j => trees[p[i]].created_at >= trees[p[j]].created_at
              /\ logRows' = [i \in 1..(IF Len(trees) < LogLimit THEN Len(trees) ELSE LogLimit)
                               |-> trees[p[i]].id]
       ELSE logRows' = <<>>
  /\ UNCHANGED <<env, req, plants, sightings, trees, tree_entries, now, writes, sent, page, load, plantLog, view>>

\* ---------------------------------------------------- specification: trees
\* Requests to the two trees handlers and the tree log page.
TreeReqIds == 1..MaxTreeReq

TreeCalls == { Call("POST", TRUE, Img1, JsNum(1), JsStr("2"), JsUndef),
               Call("POST", TRUE, JsUndef, JsUndef, JsUndef, JsUndef),
               Call("PUT", TRUE, Img1, JsUndef, JsUndef, JsUndef) }

\* the table after an earlier sighting
EarlierTrees ==
  <<[id |-> 1, created_at |-> 0, image_url |-> Img2, lat |-> JsNull, lng |-> JsNull,
     identified_name |-> RedMaple, scientific_name |-> AcerRubrum,
     confidence |-> JsNum(9)]>>

InitTrees ==
  /\ env = [plantnet |-> TRUE, supabase |-> TRUE]
  /\ req = [r \in TreeReqIds |-> IdleReq]
  /\ plants = <<>>
  /\ sightings = <<>>
  /\ trees = EarlierTrees
  /\ tree_entries = <<>>
  /\ now = 0
  /\ writes = {}
  /\ sent = [r \in DOMAIN req |-> <<>>]
  /\ logRows = <<>>
  /\ page = [p \in PageIds |-> Unmounted]
  /\ load = [l \in LoadIds |-> FreeLoad]
  /\ plantLog = LogUnmounted
  /\ view = ViewColumns

ReceiveTrees(r) ==
  \E q \in TreeCalls, v \in {VTreesFull, VTreesMin} : Receive(r, v, q)

NextTrees ==
  \/ \E r \in TreeReqIds :
       \/ ReceiveTrees(r)
       \/ FetchImage(r)
       \/ ReadBlob(r)
       \/ CallPlantNet(r)
       \/ InsertTree(r)
  \/ LoadTreeLog

SpecTrees == InitTrees /\ [][NextTrees]_vars

\* ------------------------------------------- specification: every handler
\* Requests to the four handler versions, with and without the environment
\* variables, over the same database.
HandlerReqIds == 1..MaxHandlerReq

\* a preflight, another method, bodies without a usable imageUrl, and the
\* ways to give no organ
MoreCalls == { Call("OPTIONS", FALSE, JsUndef, JsUndef, JsUndef, JsUndef),
               Call("GET", TRUE, Img1, JsUndef, JsUndef, JsUndef),
               Call("POST", TRUE, JsStr(""), JsNum(1), JsNum(2), JsUndef),
               Call("POST", TRUE, JsUndef, JsUndef, JsUndef, JsUndef),
               Call("POST", TRUE, JsNum(5), JsUndef, JsUndef, JsUndef),
               Call("POST", TRUE, Img1, JsUndef, JsUndef, JsNull),
               Call("POST", TRUE, Img1, JsUndef, JsUndef, JsStr("")) }

Versions == {VPlants, VTreesFull, VTreesMin, VNoDb}

InitHandlers ==
  /\ env \in [plantnet : BOOLEAN, supabase : BOOLEAN]
  /\ req = [r \in HandlerReqIds |-> IdleReq]
  /\ plants = <<>>
  /\ sightings = <<>>
  /\ trees = <<>>
  /\ tree_entries = <<>>
  /\ now = 0
  /\ writes = {}
  /\ sent = [r \in DOMAIN req |-> <<>>]
  /\ logRows = <<>>
  /\ page = [p \in PageIds |-> Unmounted]
  /\ load = [l \in LoadIds |-> FreeLoad]
  /\ plantLog = LogUnmounted
  /\ view = ViewColumns

\* index.ts throws while the module loads when the Supabase variables are
\* missing: that handler then serves nothing
ReceiveAny(r) ==
  \E q \in Calls \cup MoreCalls, v \in Versions :
    /\ v = VPlants => env.supabase
    /\ Receive(r, v, q)

NextHandlers ==
  \E r \in HandlerReqIds :
    \/ ReceiveAny(r)
    \/ FetchImage(r)
    \/ ReadBlob(r)
    \/ CallPlantNet(r)
    \/ UpsertPlantFirst(r)
    \/ UpsertPlant(r)
    \/ InsertSighting(r)
    \/ InsertTree(r)

SpecHandlers == InitHandlers /\ [][NextHandlers]_vars

\* ------------------------------------------------------------ route key
\* the characters encodeURIComponent escapes, with their escapes
Escapes == [c \in {" ", "\t", "%", "×"} |->
              CASE c = " " -> <<"%", "2", "0">>
                [] c = "\t" -> <<"%", "0", "9">>
                [] c = "%" -> <<"%", "2", "5">>
                [] c = "×" -> <<"%", "C", "3", "%", "9", "7">>]

\* href={`/plants/${encodeURIComponent(p.key)}`}
RECURSIVE encodeURIComponent(_)
encodeURIComponent(s) ==
  IF s = <<>> THEN s
  ELSE (IF Head(s) \in DOMAIN Escapes THEN Escapes[Head(s)] ELSE <<Head(s)>>)
       \o encodeURIComponent(Tail(s))

\* decodeURIComponent(String(raw ?? "")): an escape becomes its character
RECURSIVE decodeURIComponent(_)
decodeURIComponent(s) ==
  IF s = <<>> THEN s
  ELSE LET hit == {c \in DOMAIN Escapes :
                     /\ Len(s) >= Len(Escapes[c])
                     /\ SubSeq(s, 1, Len(Escapes[c])) = Escapes[c]}
       IN IF hit # {}
          THEN LET c == CHOOSE c \in hit : TRUE
               IN <<c>> \o decodeURIComponent(SubSeq(s, Len(Escapes[c]) + 1, Len(s)))
          ELSE <<Head(s)>> \o decodeURIComponent(Tail(s))

\* ----------------------------------------------------- detail page: load
K1 == slugifyKey(AcerRubrum)
RouteKeys == {<<>>, K1}

\* what the plant_log query of the page may answer: an error, no row, a row
LogError == [found |-> FALSE, name |-> <<"e", "r", "r", "o", "r">>]
LogResults == {LogError, NoLog, [found |-> TRUE, name |-> RedMaple]}

\* the same query against a plant_log without a selected column
LogColumnError == [found |-> FALSE, name |-> <<"c", "o", "l", "u", "m", "n">>]
LogAnswers(v) == IF PlantLogSelected \subseteq v THEN LogResults
                 ELSE {LogError, LogColumnError}

\* .from("tree_entries").select(...).eq("key", k).maybeSingle()
EntryOf(tbl, k) == IF HasKey(tbl, k) THEN tbl[KeyIndex(tbl, k)] ELSE NoEntry

\* the created row always without a display name
NewEntryNameless(k, log) == [key |-> k, display_name |-> Null, notes |-> Null]

\* insert({ key: plantKey, display_name: log?.name ?? null, notes: null })
NewEntry(k, log) == [key |-> k, display_name |-> log.name, notes |-> Null]

\* .from("plants").select(...).eq("key_lc", keyLc).maybeSingle(): data
PlantByKeyLc(tbl, k) ==
  LET hits == {i \in 1..Len(tbl) : tbl[i].key_lc = toLowerCase(k)}
  IN IF Cardinality(hits) = 1 THEN tbl[CHOOSE i \in hits : TRUE].key ELSE Null

Running(l) == load[l].pc \notin {"free"}
FreeSlot(l) == /\ ~Running(l)
               /\ \A m \in LoadIds : m < l => Running(m)

\* a cleanup that leaves the closures of the running loads as they are
NotCancelled(p) == load

\* the effect cleanup: cancelled = true in the closure of the page's load
Cancelled(p) ==
  [l \in LoadIds |-> IF Running(l) /\ load[l].page = p
                     THEN [load[l] EXCEPT !.cancelled = TRUE] ELSE load[l]]

\* another actor wrote tree_entries while these loads were running
Disturbed(ld, except) ==
  [l \in LoadIds |-> IF ld[l].pc # "free" /\ l # except
                     THEN [ld[l] EXCEPT !.alone = FALSE] ELSE ld[l]]

\* setEntryRow, setDisplayName, setNotes, originalRef.current = { ... }
Shown(pg, entry, log) ==
  LET dn == Coalesce(entry.display_name, Coalesce(log.name, <<>>))
      nt == Coalesce(entry.notes, <<>>)
  IN [pg EXCEPT !.entryRow = entry, !.displayName = dn, !.notes = nt,
                !.original = [displayName |-> dn, notes |-> nt]]

Failed(pg, msg) == [pg EXCEPT !.error = msg, !.loading = FALSE]

\* The route shows plant k on page p (mount, or change of the route key): the
\* cleanup of the previous effect runs, then load() up to its first await.
Navigate(p, k) ==
  /\ page[p].key # k
  /\ \E l \in LoadIds :
       /\ FreeSlot(l)
       /\ LET started == [page[p] EXCEPT !.key = k, !.loading = TRUE, !.error = "",
                                         !.isEditing = FALSE, !.shot = NoFields]
          IN IF k = <<>>
             THEN /\ page' = [page EXCEPT ![p] = Failed(started, "Missing plant key in URL")]
                  /\ load' = Cancelled(p)
             ELSE /\ page' = [page EXCEPT ![p] = started]
                  /\ load' = [Cancelled(p) EXCEPT ![l] =
                                [FreeLoad EXCEPT !.pc = "log", !.page = p, !.key = k,
                                                 !.before = tree_entries]]
  /\ UNCHANGED <<env, req, plants, sightings, trees, tree_entries, now, writes, sent, logRows, plantLog, view>>

\* The page is closed: the cleanup runs and the component state is gone.
Unmount(p) ==
  /\ page[p].key # Null
  /\ ~page[p].saving
  /\ page' = [page EXCEPT ![p] = Unmounted]
  /\ load' = Cancelled(p)
  /\ UNCHANGED <<env, req, plants, sightings, trees, tree_entries, now, writes, sent, logRows, plantLog, view>>

\* 1) the plant_log query returns
LoadLog(l) ==
  /\ load[l].pc = "log"
  /\ \E res \in LogAnswers(view) :
       LET p == load[l].page
       IN IF load[l].cancelled
          THEN /\ load' = [load EXCEPT ![l] = FreeLoad]
               /\ page' = page
          ELSE IF res \in {LogError, LogColumnError}
          THEN /\ load' = [load EXCEPT ![l] = FreeLoad]
               /\ page' = [page EXCEPT ![p] =
                    Failed(page[p], IF res = LogColumnError
                                    THEN "Error loading plant_log: column does not exist"
                                    ELSE "Error loading plant_log")]
          ELSE /\ load' = [load EXCEPT ![l].pc = "entry", ![l].log = res]
               /\ page' = [page EXCEPT ![p].logRow = res]
  /\ UNCHANGED <<env, req, plants, sightings, trees, tree_entries, now, writes, sent, logRows, plantLog, view>>

\* 2) the tree_entries query returns: the row, no row, or an error
LoadEntry(l) ==
  /\ load[l].pc = "entry"
  /\ \E ok \in BOOLEAN :
       LET p == load[l].page
           entry == EntryOf(tree_entries, load[l].key)
       IN IF load[l].cancelled
          THEN /\ load' = [load EXCEPT ![l] = FreeLoad]
               /\ page' = page
          ELSE IF ~ok
          THEN /\ load' = [load EXCEPT ![l] = FreeLoad]
               /\ page' = [page EXCEPT ![p] = Failed(page[p], "Error loading tree_entries")]
          ELSE IF entry = NoEntry
          THEN /\ load' = [load EXCEPT ![l].pc = "create"]
               /\ page' = page
          ELSE /\ load' = [load EXCEPT ![l].pc = "plants"]
               /\ page' = [page EXCEPT ![p] = Shown(page[p], entry, load[l].log)]
  /\ UNCHANGED <<env, req, plants, sightings, trees, tree_entries, now, writes, sent, logRows, plantLog, view>>

\* tree_entries.key is unique: the insert of a second row for a key fails
EntriesInsertOk(tbl, row) == ~HasKey(tbl, row.key)

\* the insert of the missing row returns
LoadCreate(l) ==
  /\ load[l].pc = "create"
  /\ \E ok \in BOOLEAN :
       LET p == load[l].page
           row == NewEntry(load[l].key, load[l].log)
           inserted == ok /\ EntriesInsertOk(tree_entries, row)
       IN /\ tree_entries' = IF inserted THEN Append(tree_entries, row) ELSE tree_entries
          /\ IF load[l].cancelled
             THEN /\ load' = IF inserted THEN Disturbed([load EXCEPT ![l] = FreeLoad], l)
                             ELSE [load EXCEPT ![l] = FreeLoad]
                  /\ page' = page
             ELSE IF ~inserted
             THEN /\ load' = [load EXCEPT ![l] = FreeLoad]
                  /\ page' = [page EXCEPT ![p] =
                                Failed(page[p], "Error creating tree_entries row")]
             ELSE /\ load' = Disturbed([load EXCEPT ![l].pc = "plants"], l)
                  /\ page' = [page EXCEPT ![p] = Shown(page[p], row, load[l].log)]
  /\ UNCHANGED <<env, req, plants, sightings, trees, now, writes, sent, logRows, plantLog, view>>

\* 3) the plants query returns; setPlant, setLoading(false)
LoadPlants(l) ==
  /\ load[l].pc = "plants"
  /\ \E ok \in BOOLEAN :
       LET p == load[l].page
           data == IF ok THEN PlantByKeyLc(plants, load[l].key) ELSE Null
       IN /\ load' = [load EXCEPT ![l] = FreeLoad]
          /\ page' = IF load[l].cancelled THEN page
                     ELSE [page EXCEPT ![p].plant = data, ![p].loading = FALSE]
  /\ UNCHANGED <<env, req, plants, sightings, trees, tree_entries, now, writes, sent, logRows, plantLog, view>>

\* ------------------------------------------------ detail page: the form
\* {!loading && !error && ( ... the cards ... )}
Visible(p) == page[p].key # Null /\ ~page[p].loading /\ page[p].error = ""

\* what the user types into a field
Typed == {<<" ">>, <<" ", "a", " ">>}

\* edit mode without a new snapshot: originalRef keeps what load or save left
StartEditNoSnapshot(p) ==
  /\ Visible(p) /\ ~page[p].isEditing
  /\ page' = [page EXCEPT ![p].isEditing = TRUE,
                          ![p].shot = [displayName |-> page[p].displayName,
                                       notes |-> page[p].notes]]
  /\ UNCHANGED <<env, req, plants, sightings, trees, tree_entries, now, writes, sent, logRows, plantLog, view, load>>

\* startEdit(): setIsEditing(true); originalRef.current = { displayName, notes }
StartEdit(p) ==
  /\ Visible(p) /\ ~page[p].isEditing
  /\ page' = [page EXCEPT ![p].isEditing = TRUE,
                          ![p].original = [displayName |-> page[p].displayName,
                                           notes |-> page[p].notes],
                          ![p].shot = [displayName |-> page[p].displayName,
                                       notes |-> page[p].notes]]
  /\ UNCHANGED <<env, req, plants, sightings, trees, tree_entries, now, writes, sent, logRows, plantLog, view, load>>

ChangeDisplayName(p, v) ==
  /\ Visible(p) /\ page[p].isEditing /\ ~page[p].saving
  /\ page' = [page EXCEPT ![p].displayName = v]
  /\ UNCHANGED <<env, req, plants, sightings, trees, tree_entries, now, writes, sent, logRows, plantLog, view, load>>

ChangeNotes(p, v) ==
  /\ Visible(p) /\ page[p].isEditing /\ ~page[p].saving
  /\ page' = [page EXCEPT ![p].notes = v]
  /\ UNCHANGED <<env, req, plants, sightings, trees, tree_entries, now, writes, sent, logRows, plantLog, view, load>>

CancelEdit(p) ==
  /\ Visible(p) /\ page[p].isEditing /\ ~page[p].saving
  /\ page' = [page EXCEPT ![p].displayName = page[p].original.displayName,
                          ![p].notes = page[p].original.notes,
                          ![p].isEditing = FALSE, ![p].error = "",
                          ![p].shot = NoFields]
  /\ UNCHANGED <<env, req, plants, sightings, trees, tree_entries, now, writes, sent, logRows, plantLog, view, load>>

\* the stored value is the field as typed
AsTyped(v) == IF v # <<>> THEN v ELSE Null

\* x.trim() ? x.trim() : null
TrimOrNull(v) == IF trim(v) # <<>> THEN trim(v) ELSE Null

\* upsert(payload, { onConflict: "key" }) on tree_entries
EntriesUpsert(tbl, row) ==
  IF HasKey(tbl, row.key) THEN [tbl EXCEPT ![KeyIndex(tbl, row.key)] = row]
  ELSE Append(tbl, row)

\* save() up to its await: setSaving(true), setError(null), the payload
SaveClick(p) ==
  /\ Visible(p) /\ page[p].isEditing /\ ~page[p].saving
  /\ page' = [page EXCEPT
       ![p].saving = TRUE, ![p].error = "",
       ![p].payload = [key |-> page[p].key,
                       display_name |-> TrimOrNull(page[p].displayName),
                       notes |-> TrimOrNull(page[p].notes)],
       ![p].typed = [displayName |-> page[p].displayName, notes |-> page[p].notes]]
  /\ UNCHANGED <<env, req, plants, sightings, trees, tree_entries, now, writes, sent, logRows, plantLog, view, load>>

\* the upsert returns: the error branch, or the row and the end of edit mode
SaveDone(p) ==
  /\ page[p].saving
  /\ \E ok \in BOOLEAN :
       IF ok
       THEN /\ tree_entries' = EntriesUpsert(tree_entries, page[p].payload)
            /\ load' = Disturbed(load, 0)
            /\ page' = [page EXCEPT
                 ![p].entryRow = page[p].payload,
                 ![p].original = [displayName |-> Coalesce(page[p].payload.display_name, <<>>),
                                  notes |-> Coalesce(page[p].payload.notes, <<>>)],
                 ![p].isEditing = FALSE, ![p].saving = FALSE,
                 ![p].payload = NoEntry, ![p].typed = NoFields, ![p].shot = NoFields]
       ELSE /\ page' = [page EXCEPT ![p].error = "Save failed", ![p].saving = FALSE,
                                    ![p].payload = NoEntry, ![p].typed = NoFields]
            /\ UNCHANGED <<tree_entries, load>>
  /\ UNCHANGED <<env, req, plants, sightings, trees, now, writes, sent, logRows, plantLog, view>>

\* ----------------------------------------------- specification: the page
\* plants after one sighting of Acer rubrum
PlantsSeen ==
  <<[id |-> 1, key |-> K1, key_lc |-> K1, common_name |-> RedMaple,
     scientific_name |-> AcerRubrumL]>>

\* the annotation of a plant that is not on the page
OtherEntries == <<[key |-> unknown, display_name |-> Null, notes |-> NoteA]>>

InitPage ==
  /\ env = [plantnet |-> TRUE, supabase |-> TRUE]
  /\ req = [r \in ReqIds |-> IdleReq]
  /\ plants = PlantsSeen
  /\ sightings = <<>>
  /\ trees = <<>>
  /\ tree_entries = OtherEntries
  /\ now = 0
  /\ writes = {}
  /\ sent = [r \in DOMAIN req |-> <<>>]
  /\ logRows = <<>>
  /\ page = [p \in PageIds |-> Unmounted]
  /\ load = [l \in LoadIds |-> FreeLoad]
  /\ plantLog = LogUnmounted
  /\ view = ViewWithSelected

NextPage ==
  \/ \E p \in PageIds :
       \/ \E k \in RouteKeys : Navigate(p, k)
       \/ Unmount(p)
       \/ StartEdit(p)
       \/ \E v \in Typed : ChangeDisplayName(p, v)
       \/ \E v \in Typed : ChangeNotes(p, v)
       \/ CancelEdit(p)
       \/ SaveClick(p)
       \/ SaveDone(p)
  \/ \E l \in LoadIds :
       \/ LoadLog(l)
       \/ LoadEntry(l)
       \/ LoadCreate(l)
       \/ LoadPlants(l)

SpecPage == InitPage /\ [][NextPage]_vars

\* -------------------------------------------------------- plant log page
\* what the deployed view may hold: the keys of its rows
LogData == {<<>>, <<K1>>}

\* .from("plant_log").select(...).order("last_seen", ...): { data, error }
SelectPlantLog(v) ==
  {[error |-> FetchFailed, data |-> <<>>]} \cup
  (IF PlantLogSelected \subseteq v
   THEN {[error |-> "", data |-> d] : d \in LogData}
   ELSE {[error |-> ColumnMissing, data |-> <<>>]})

LogRunning(l) == plantLog.runs[l].pc # "free"

\* the effect cleanup of the plant log page: cancelled = true
LogCancelled ==
  [l \in LogRunIds |-> IF LogRunning(l)
                       THEN [plantLog.runs[l] EXCEPT !.cancelled = TRUE]
                       ELSE plantLog.runs[l]]

\* the page mounts: the effect runs load() up to its await
MountLog ==
  /\ ~plantLog.mounted
  /\ \E l \in LogRunIds :
       /\ ~LogRunning(l)
       /\ \A m \in LogRunIds : m < l => LogRunning(m)
       /\ plantLog' = [plantLog EXCEPT !.mounted = TRUE, !.loading = TRUE, !.error = "",
                                       !.runs[l] = [pc |-> "query", cancelled |-> FALSE]]
  /\ UNCHANGED <<env, req, plants, sightings, trees, tree_entries, now, writes, sent,
                 logRows, page, load, view>>

\* the page is closed: the cleanup runs and the component state is gone
UnmountLog ==
  /\ plantLog.mounted
  /\ plantLog' = [LogUnmounted EXCEPT !.runs = LogCancelled]
  /\ UNCHANGED <<env, req, plants, sightings, trees, tree_entries, now, writes, sent,
                 logRows, page, load, view>>

\* the query returns: if (cancelled) return; setError/setRows; setLoading(false)
LogQueryDone(l) ==
  /\ plantLog.runs[l].pc = "query"
  /\ \E res \in SelectPlantLog(view) :
       LET freed == [plantLog EXCEPT !.runs[l] = [pc |-> "free", cancelled |-> FALSE]]
       IN plantLog' = IF plantLog.runs[l].cancelled THEN freed
                      ELSE [freed EXCEPT !.error = res.error, !.rows = res.data,
                                         !.loading = FALSE]
  /\ UNCHANGED <<env, req, plants, sightings, trees, tree_entries, now, writes, sent,
                 logRows, page, load, view>>

\* ------------------------------------------ specification: the page loads
\* The loads of the detail page and of the plant log page, against the
\* database of the migrations or one whose plant_log has the selected columns.
\* the routes visited: no key, a plant without annotation, one with
LoadKeys == RouteKeys \cup {unknown}

InitLoads ==
  /\ env = [plantnet |-> TRUE, supabase |-> TRUE]
  /\ req = [r \in ReqIds |-> IdleReq]
  /\ plants = PlantsSeen
  /\ sightings = <<>>
  /\ trees = <<>>
  /\ tree_entries = OtherEntries
  /\ now = 0
  /\ writes = {}
  /\ sent = [r \in DOMAIN req |-> <<>>]
  /\ logRows = <<>>
  /\ page = [p \in PageIds |-> Unmounted]
  /\ load = [l \in LoadIds |-> FreeLoad]
  /\ plantLog = LogUnmounted
  /\ view \in {ViewColumns, ViewWithSelected}

NextLoads ==
  \/ \E p \in PageIds :
       \/ \E k \in LoadKeys : Navigate(p, k)
       \/ Unmount(p)
  \/ \E l \in LoadIds :
       \/ LoadLog(l)
       \/ LoadEntry(l)
       \/ LoadCreate(l)
       \/ LoadPlants(l)
  \/ MountLog
  \/ UnmountLog
  \/ \E l \in LogRunIds : LogQueryDone(l)

SpecLoads == InitLoads /\ [][NextLoads]_vars

\* ------------------------------------------------ claims: plants/sightings
Done(r) == req[r].pc = "done"
Ok200(r) == Done(r) /\ req[r].status = 200
SightingWrites(r) == {w \in writes : w.req = r /\ w.table = "sightings"}
HasSna(b) == ~Falsy(b.sna)

\* C1: whatever the interleaving of the requests and of their two upserts,
\* the plants table holds at most one row per key.
C1_PlantsKeyUnique ==
  \A i, j \in 1..Len(plants) : plants[i].key = plants[j].key => i = j

\* two requests for the same key are between their upserts at the same time
C1_Witness ==
  \E r1, r2 \in DOMAIN req :
    /\ r1 # r2
    /\ req[r1].pc = "upsert2" /\ req[r2].pc = "upsert2"
    /\ plantKey(req[r1].best) = plantKey(req[r2].best)
    /\ HasKey(plants, plantKey(req[r1].best))

\* C2: every sightings row's plant_id is the id of a plants row.
C2_SightingsReferencePlants ==
  \A i \in 1..Len(sightings) :
    \E j \in 1..Len(plants) : plants[j].id = sightings[i].plant_id

\* sightings of two plants exist, one made after a failed first upsert
C2_Witness ==
  /\ \E i, j \in 1..Len(sightings) : sightings[i].plant_id # sightings[j].plant_id
  /\ \E r \in DOMAIN req : Ok200(r) /\ ~\E w \in writes : w.req = r /\ w.step = "upsert1"

\* C3: a request answered 200 inserted exactly one sightings row, the one whose
\* id it returns, holding the request's imageUrl, its lat and lng (when they
\* are numbers, else null) and the top result's score (when a number, else
\* null); a request answered 4xx or 502 inserted none.
C3_OneSightingPer200 ==
  \A r \in DOMAIN req :
    /\ Ok200(r) =>
         /\ Cardinality(SightingWrites(r)) = 1
         /\ \A w \in SightingWrites(r) : w.id = req[r].id
         /\ req[r].id \in 1..Len(sightings)
         /\ sightings[req[r].id].image_url = req[r].imageUrl
         /\ sightings[req[r].id].lat = (IF req[r].lat.t = "number" THEN req[r].lat ELSE JsNull)
         /\ sightings[req[r].id].lng = (IF req[r].lng.t = "number" THEN req[r].lng ELSE JsNull)
         /\ sightings[req[r].id].confidence =
              (IF req[r].best.score.t = "number" THEN req[r].best.score ELSE JsNull)
    /\ (Done(r) /\ (req[r].status \in 400..499 \/ req[r].status = 502)) =>
         SightingWrites(r) = {}

\* one request was answered 200 with a numeric lat, another was refused
C3_Witness ==
  \E r1, r2 \in DOMAIN req :
    /\ Ok200(r1) /\ req[r1].lat.t = "number" /\ req[r1].best.score.t = "number"
    /\ Done(r2) /\ req[r2].status \in {400, 408, 502}
    /\ Len(sightings) = 1

\* C4: two requests answered 200 whose top results have the same
\* scientificNameWithoutAuthor return the same key; plants has exactly one row
\* with that key, and the two sightings are distinct rows pointing at it.
C4_SameNameSamePlant ==
  \A r1, r2 \in DOMAIN req :
    (/\ r1 # r2 /\ Ok200(r1) /\ Ok200(r2)
     /\ HasSna(req[r1].best) /\ req[r1].best.sna = req[r2].best.sna) =>
       /\ req[r1].key = req[r2].key
       /\ Cardinality({i \in 1..Len(plants) : plants[i].key = req[r1].key}) = 1
       /\ req[r1].id # req[r2].id
       /\ \A i \in 1..Len(plants) : plants[i].key = req[r1].key =>
            /\ sightings[req[r1].id].plant_id = plants[i].id
            /\ sightings[req[r2].id].plant_id = plants[i].id

\* two such requests whose results differ in everything but that name
C4_Witness ==
  \E r1, r2 \in DOMAIN req :
    /\ r1 # r2 /\ Ok200(r1) /\ Ok200(r2)
    /\ HasSna(req[r1].best) /\ req[r1].best.sna = req[r2].best.sna
    /\ req[r1].best # req[r2].best

\* C5: the key of a 200 response is the key of the plants row that the
\* returned sighting references.
C5_ResponseKeyIsPlantKey ==
  \A r \in DOMAIN req :
    Ok200(r) =>
      \E j \in 1..Len(plants) :
        /\ plants[j].id = sightings[req[r].id].plant_id
        /\ plants[j].key = req[r].key

\* a 200 response for a plant that is not the newest plants row
C5_Witness ==
  \E r \in DOMAIN req :
    /\ Ok200(r)
    /\ Len(plants) > 1
    /\ sightings[req[r].id].plant_id # Len(plants)
    /\ sightings[req[r].id].id = Len(sightings)

\* C10: identify requests leave tree_entries alone: the entry saved for a key
\* is the same after any number of sightings of that plant or of another.
C10_NotesStick == tree_entries = SavedEntries

\* the plant with the saved entry and another plant were both sighted
C10_Witness ==
  \E r1, r2 \in DOMAIN req :
    /\ Ok200(r1) /\ req[r1].key = SavedEntries[1].key
    /\ Ok200(r2) /\ req[r2].key # SavedEntries[1].key


\* --------------------------------------------------------- claims: trees
\* C6: whatever the trees table holds, every content the plant_log view may
\* show has exactly one row for each non-null scientific_name in trees and no
\* other row, and the row's id and last_seen are those of a trees row of that
\* name whose created_at is the greatest among the rows of that name.
C6_PlantLogDedup ==
  /\ plant_log(trees) # {}
  /\ \A v \in plant_log(trees) :
       /\ \A i \in Named(trees) :
            Cardinality({x \in v : x.scientific_name = trees[i].scientific_name}) = 1
       /\ \A x \in v :
            /\ x.scientific_name # Null
            /\ \E i \in 1..Len(trees) :
                 /\ trees[i].scientific_name = x.scientific_name
                 /\ trees[i].id = x.id
                 /\ trees[i].created_at = x.last_seen
                 /\ \A j \in 1..Len(trees) :
                      trees[j].scientific_name = x.scientific_name =>
                        trees[j].created_at <= trees[i].created_at

\* two sightings of one species at different times, and a row without a name
C6_Witness ==
  /\ \E i, j \in 1..Len(trees) :
       /\ trees[i].scientific_name = trees[j].scientific_name
       /\ trees[i].scientific_name # Null
       /\ trees[i].created_at < trees[j].created_at
  /\ \E k \in 1..Len(trees) : trees[k].scientific_name = Null

IsTreesHandler(v) == v \in {VTreesFull, VTreesMin}

\* C7: a step leaves the rows of trees as they are and appends at most one
\* row; it appends one exactly when a request to a trees handler gets its 200
\* response, and the new row is the one that response names.
C7_TreesAppendOnly ==
  [][ /\ Len(trees') \in {Len(trees), Len(trees) + 1}
      /\ SubSeq(trees', 1, Len(trees)) = trees
      /\ (Len(trees') = Len(trees) + 1) <=>
           \E r \in DOMAIN req :
             /\ IsTreesHandler(req[r].version)
             /\ req[r].pc # "done"
             /\ req'[r].pc = "done" /\ req'[r].status = 200
             /\ req'[r].id = trees'[Len(trees')].id
    ]_vars

\* one request stored a row, another failed to, and the log page has loaded
C7_Witness ==
  /\ \E r1, r2 \in DOMAIN req :
       /\ Ok200(r1) /\ IsTreesHandler(req[r1].version)
       /\ Done(r2) /\ req[r2].error = "DB insert failed"
  /\ Len(trees) = 2
  /\ Len(logRows) = 2

\* ---------------------------------------------------- claims: detail page
RowsFor(tbl, k) == {i \in 1..Len(tbl) : tbl[i].key = k}

\* the step with which load l reaches its end and the page shows the plant
Finishes(l) ==
  /\ load[l].pc = "plants" /\ load'[l].pc = "free"
  /\ ~load[l].cancelled

\* C8: when a detail-page load for a non-empty key k runs alone and finishes
\* without error, exactly one tree_entries row with key k exists afterwards;
\* if none existed before the load, it was inserted with notes null and
\* display_name the plant_log name (or null); if one existed before the load,
\* the table is as it was before the load.
C8_LazyCreateOnce ==
  [][\A l \in LoadIds :
       (Finishes(l) /\ load[l].alone /\ load[l].key # <<>>) =>
         LET k == load[l].key
             was == load[l].before
             name == IF load[l].log.found THEN load[l].log.name ELSE Null
         IN /\ Cardinality(RowsFor(tree_entries', k)) = 1
            /\ IF RowsFor(was, k) = {}
               THEN tree_entries' =
                      Append(was, [key |-> k, display_name |-> name, notes |-> Null])
               ELSE tree_entries' = was]_vars

\* a first view of K1 has finished: the row made from the plant_log name
C8_Witness ==
  /\ \E p \in PageIds :
       /\ Visible(p) /\ page[p].key = K1
       /\ page[p].logRow.found
       /\ page[p].entryRow = [key |-> K1, display_name |-> RedMaple, notes |-> Null]
  /\ tree_entries = Append(OtherEntries,
                           [key |-> K1, display_name |-> RedMaple, notes |-> Null])
  /\ \A l \in LoadIds : ~Running(l)

\* the field without its leading and trailing whitespace, null when nothing
\* is left
Stripped(v) ==
  LET solid == {i \in 1..Len(v) : ~IsSpace(v[i])}
  IN IF solid = {} THEN Null
     ELSE SubSeq(v, CHOOSE i \in solid : \A j \in solid : i <= j,
                    CHOOSE i \in solid : \A j \in solid : j <= i)

\* the step with which a save of page p returns without an error
SaveSucceeds(p) ==
  /\ page[p].saving /\ ~page'[p].saving
  /\ page'[p].error # "Save failed"

\* C9: a successful save for key k leaves exactly one tree_entries row with
\* key k, whose display_name and notes are the trimmed field values, null when
\* the trimmed value is empty; no second row for k appears and no row with
\* another key changes.
C9_SaveTrimsOneRow ==
  [][\A p \in PageIds :
       SaveSucceeds(p) =>
         LET k == page[p].payload.key
             want == [key |-> k,
                      display_name |-> Stripped(page[p].typed.displayName),
                      notes |-> Stripped(page[p].typed.notes)]
         IN /\ Cardinality(RowsFor(tree_entries', k)) = 1
            /\ EntryOf(tree_entries', k) = want
            /\ Len(tree_entries') =
                 Len(tree_entries) + (IF RowsFor(tree_entries, k) = {} THEN 1 ELSE 0)
            /\ \A i \in 1..Len(tree_entries) :
                 tree_entries[i].key # k => tree_entries'[i] = tree_entries[i]]_vars

\* a save of " a " and " " has returned: the name trimmed, the notes null
C9_Witness ==
  /\ \E p \in PageIds :
       /\ Visible(p) /\ page[p].key = K1
       /\ ~page[p].saving /\ ~page[p].isEditing
       /\ page[p].displayName = <<" ", "a", " ">>
       /\ page[p].notes = <<" ">>
       /\ page[p].entryRow = [key |-> K1, display_name |-> <<"a">>, notes |-> Null]
  /\ tree_entries = Append(OtherEntries,
                           [key |-> K1, display_name |-> <<"a">>, notes |-> Null])

\* ------------------------------------------- claims: the handler's steps
\* the outbound calls of execution r to one destination, and its writes
CallsTo(r, to) == {i \in 1..Len(sent[r]) : sent[r][i].to = to}
WritesOf(r) == {w \in writes : w.req = r}

\* the request of execution r passes every check made before the first call
Validated(r) ==
  /\ req[r].method = "POST" /\ req[r].json
  /\ req[r].imageUrl.t = "string" /\ req[r].imageUrl.s # ""
  /\ env.plantnet
  /\ OrganValid(req[r])

\* C11: within one execution the image is fetched only after the request
\* passed validation, PlantNet is called only after the image fetch returned
\* an OK response, and a database write happens only after PlantNet returned
\* an OK response; a request rejected at a step performs none of the later
\* steps.
C11_StepsInOrder ==
  \A r \in DOMAIN req :
    /\ CallsTo(r, "image") # {} => Validated(r)
    /\ \A i \in CallsTo(r, "plantnet") :
         \E j \in CallsTo(r, "image") : j < i /\ sent[r][j].out = "ok"
    /\ WritesOf(r) # {} => \E i \in CallsTo(r, "plantnet") : sent[r][i].out = "ok"
    /\ (req[r].pc = "done" /\ ~Validated(r)) => sent[r] = <<>> /\ WritesOf(r) = {}
    /\ (\E i \in CallsTo(r, "image") : sent[r][i].out # "ok") =>
         CallsTo(r, "plantnet") = {} /\ WritesOf(r) = {}
    /\ (\E i \in CallsTo(r, "plantnet") : sent[r][i].out # "ok") => WritesOf(r) = {}

\* one execution went through every step, another stopped at PlantNet
C11_Witness ==
  \E r1, r2 \in DOMAIN req :
    /\ Ok200(r1) /\ Len(sent[r1]) = 2 /\ WritesOf(r1) # {}
    /\ Done(r2) /\ req[r2].status = 502 /\ Len(sent[r2]) = 2 /\ WritesOf(r2) = {}

\* C12: an image fetch aborted by its timer is answered 408 'Image fetch
\* timeout after 15 seconds' with no PlantNet call and no database write; a
\* PlantNet call aborted by its timer is answered 408 'PlantNet API timeout
\* after 30 seconds' with no database write.
C12_TimeoutsAnswered408 ==
  \A r \in DOMAIN req :
    /\ (\E i \in CallsTo(r, "image") : sent[r][i].out = "abort") =>
         /\ Done(r) /\ req[r].status = 408
         /\ req[r].error = "Image fetch timeout after 15 seconds"
         /\ CallsTo(r, "plantnet") = {} /\ WritesOf(r) = {}
    /\ (\E i \in CallsTo(r, "plantnet") : sent[r][i].out = "abort") =>
         /\ Done(r) /\ req[r].status = 408
         /\ req[r].error = "PlantNet API timeout after 30 seconds"
         /\ WritesOf(r) = {}

\* both timers have fired, each in one execution
C12_Witness ==
  \E r1, r2 \in DOMAIN req :
    /\ sent[r1] = <<[to |-> "image", organ |-> "", out |-> "abort"]>>
    /\ req[r1].status = 408
    /\ Len(sent[r2]) = 2 /\ sent[r2][2].out = "abort"
    /\ req[r2].status = 408

\* ------------------------------------------- claims: request admission
\* C13: in every handler version a POST whose JSON body has no imageUrl, or
\* an imageUrl that is not a non-empty string, is answered 400 'Missing
\* required field: imageUrl' and causes no outbound call and no database write.
C13_MissingImageUrl400 ==
  \A r \in DOMAIN req :
    (/\ req[r].pc # "idle"
     /\ req[r].method = "POST" /\ req[r].json
     /\ ~(req[r].imageUrl.t = "string" /\ req[r].imageUrl.s # "")) =>
      /\ Done(r) /\ req[r].status = 400
      /\ req[r].error = "Missing required field: imageUrl"
      /\ sent[r] = <<>> /\ WritesOf(r) = {}

\* C14: an OPTIONS request is answered 204 without a body, any other method
\* but POST is answered 405 'Method not allowed', and a POST whose body is not
\* valid JSON is answered 400 'Invalid JSON body'; none of the three makes an
\* outbound call or a database write.
C14_Admission ==
  \A r \in DOMAIN req :
    req[r].pc # "idle" =>
      /\ req[r].method = "OPTIONS" =>
           Done(r) /\ req[r].status = 204 /\ req[r].error = ""
      /\ req[r].method \notin {"OPTIONS", "POST"} =>
           Done(r) /\ req[r].status = 405 /\ req[r].error = "Method not allowed"
      /\ (req[r].method = "POST" /\ ~req[r].json) =>
           Done(r) /\ req[r].status = 400 /\ req[r].error = "Invalid JSON body"
      /\ (req[r].method # "POST" \/ ~req[r].json) =>
           sent[r] = <<>> /\ WritesOf(r) = {}

\* a preflight and a body that is not JSON have been answered
C14_Witness ==
  \E r1, r2 \in DOMAIN req :
    /\ req[r1].method = "OPTIONS" /\ req[r1].status = 204
    /\ req[r2].method = "POST" /\ ~req[r2].json /\ req[r2].status = 400
    /\ sent[r1] = <<>> /\ sent[r2] = <<>> /\ writes = {}

\* ------------------------------------------------------- claims: organ
\* every organ forwarded to PlantNet is one of the allowed values, and a
\* request that passed the earlier checks with another organ value is
\* answered 400 before any outbound call
OrganContract(allowed) ==
  \A r \in DOMAIN req :
    /\ \A i \in CallsTo(r, "plantnet") : sent[r][i].organ \in allowed
    /\ (/\ req[r].pc # "idle"
        /\ req[r].method = "POST" /\ req[r].json
        /\ req[r].imageUrl.t = "string" /\ req[r].imageUrl.s # ""
        /\ env.plantnet
        /\ Truthy(req[r].organ)
        /\ ~(req[r].organ.t = "string" /\ req[r].organ.s \in allowed)) =>
         /\ Done(r) /\ req[r].status = 400 /\ req[r].error = "Invalid organ type"
         /\ sent[r] = <<>>

\* C15 (as stated): the organ forwarded to PlantNet is always one of leaf,
\* flower, fruit, bark; any other organ value is rejected with 400 before any
\* outbound call.
C15_OrganOneOfFour == OrganContract({"leaf", "flower", "fruit", "bark"})

\* C15 (amended): the organ forwarded to PlantNet is always one of leaf,
\* flower, fruit, bark, auto; any other organ value is rejected with 400
\* before any outbound call.
C15_OrganOneOfFive == OrganContract({"leaf", "flower", "fruit", "bark", "auto"})

\* "auto" was forwarded by one execution, "root" refused in another
C15_Witness ==
  \E r1, r2 \in DOMAIN req :
    /\ \E i \in CallsTo(r1, "plantnet") : sent[r1][i].organ = "auto"
    /\ req[r2].organ = JsStr("root") /\ req[r2].status = 400 /\ sent[r2] = <<>>

\* C16: when the body omits organ, or gives null or the empty string, the
\* handler forwards organs = 'leaf' to PlantNet and does not reject the
\* request for its organ.
C16_OrganDefaultsToLeaf ==
  \A r \in DOMAIN req :
    (req[r].pc # "idle" /\ req[r].organ \in {JsUndef, JsNull, JsStr("")}) =>
      /\ \A i \in CallsTo(r, "plantnet") : sent[r][i].organ = "leaf"
      /\ req[r].error # "Invalid organ type"
      /\ (/\ req[r].method = "POST" /\ req[r].json
          /\ req[r].imageUrl.t = "string" /\ req[r].imageUrl.s # ""
          /\ env.plantnet /\ env.supabase) => req[r].status # 400 \/ sent[r] # <<>>

\* organ null and organ "" have both been forwarded as leaf
C16_Witness ==
  \E r1, r2 \in DOMAIN req :
    /\ req[r1].organ = JsNull /\ req[r2].organ = JsStr("")
    /\ \E i \in CallsTo(r1, "plantnet") : sent[r1][i].organ = "leaf"
    /\ \E i \in CallsTo(r2, "plantnet") : sent[r2][i].organ = "leaf"

\* ------------------------------------------------ claims: rows written
\* the rows execution r wrote, as <<table, id>>
RowsOf(r) == {<<w.table, w.id>> : w \in WritesOf(r)}

\* C17 (as stated): on a successful (200) request every handler version
\* writes at least one and at most two database rows.
C17_OneOrTwoRows ==
  \A r \in DOMAIN req :
    Ok200(r) => Cardinality(RowsOf(r)) \in {1, 2}

\* C17 (amended): on a successful (200) request the trees handlers write
\* exactly one trees row, the plants/sightings handler writes exactly one
\* plants row and one sightings row, and the handler without a database
\* writes no row.
C17_RowsPerVersion ==
  \A r \in DOMAIN req :
    Ok200(r) =>
      CASE req[r].version \in {VTreesFull, VTreesMin} ->
             RowsOf(r) = {<<"trees", req[r].id>>}
        [] req[r].version = VPlants ->
             RowsOf(r) = {<<"plants", req[r].plant_id>>, <<"sightings", req[r].id>>}
        [] req[r].version = VNoDb -> RowsOf(r) = {}

\* the plants/sightings handler and the handler without a database have
\* both answered 200
C17_Witness ==
  \E r1, r2 \in DOMAIN req :
    /\ Ok200(r1) /\ req[r1].version = VPlants /\ Cardinality(RowsOf(r1)) = 2
    /\ Ok200(r2) /\ req[r2].version = VNoDb /\ RowsOf(r2) = {}

\* --------------------------------------------------- claims: exceptions
\* C18: no exception leaves the handler, and an exception raised while
\* fetching the image, reading its bytes or calling PlantNet (the two timer
\* aborts aside) is answered 500 'Unexpected server error'.
C18_ExceptionsBecome500 ==
  \A r \in DOMAIN req :
    /\ req[r].pc # "crashed"
    /\ (\E i \in 1..Len(sent[r]) : sent[r][i].out = "throw") =>
         Done(r) /\ req[r].status = 500 /\ req[r].error = "Unexpected server error"
    /\ req[r].error # "Failed to read image data from URL"

C20_SpeciesNotMerged ==
  \A r1, r2 \in DOMAIN req :
    (/\ Ok200(r1) /\ Ok200(r2)
     /\ HasSna(req[r1].best) /\ HasSna(req[r2].best)
     /\ req[r1].best.sna # req[r2].best.sna) =>
       /\ req[r1].key # req[r2].key
       /\ req[r1].plant_id # req[r2].plant_id

\* ------------------------------------------------ claims: cancel an edit
\* a step of page p that leaves edit mode on the same route with no save in flight
CancelStep(p) ==
  /\ Visible(p) /\ page[p].isEditing /\ ~page[p].saving
  /\ ~page'[p].isEditing
  /\ page'[p].key = page[p].key

\* C21: cancelEdit sets the display name and the notes back to the values they
\* had when startEdit was called, whatever was typed since, leaves edit mode,
\* and writes nothing: tree_entries is unchanged.
C21_CancelRestoresSnapshot ==
  [][\A p \in PageIds :
       CancelStep(p) =>
         /\ page'[p].displayName = page[p].shot.displayName
         /\ page'[p].notes = page[p].shot.notes
         /\ tree_entries' = tree_entries
         /\ writes' = writes]_vars

\* in edit mode, both fields changed since startEdit, cancel enabled
C21_Witness ==
  \E p \in PageIds :
    /\ Visible(p) /\ page[p].isEditing /\ ~page[p].saving
    /\ page[p].displayName # page[p].shot.displayName
    /\ page[p].notes # page[p].shot.notes

\* ------------------------------------------------ claims: superseded loads
\* run l of the detail page's load() resumes after an await
LoadStep(l) == load[l].pc # "free" /\ load'[l].pc # load[l].pc

\* run l of the plant log page's load() resumes after its await
LogStep(l) == plantLog.runs[l].pc # "free" /\ plantLog'.runs[l].pc # plantLog.runs[l].pc

\* what the detail page shows was loaded for its route key
ShownForKey(p) == Visible(p) => page[p].entryRow.key = page[p].key

\* C22: a run of load() whose effect cleanup has run (unmount, change of the
\* plant key) updates no page state when it resumes, at whichever await it was,
\* on the detail page and on the plant log page; every update of the detail
\* page by a load is for the page's current key, and the page never shows the
\* entry of another key.
C22_SupersededLoadIsSilent ==
  [][/\ \A l \in LoadIds :
          LoadStep(l) =>
            /\ load[l].cancelled => page' = page
            /\ page' # page => load[l].key = page[load[l].page].key
      /\ \A n \in LogRunIds :
          LogStep(n) /\ plantLog.runs[n].cancelled =>
            /\ plantLog'.rows = plantLog.rows
            /\ plantLog'.loading = plantLog.loading
            /\ plantLog'.error = plantLog.error
      /\ \A p \in PageIds : ShownForKey(p)']_vars

\* both pages show the result of a later load while a superseded run of each,
\* on the detail page one for another key and past its reads, is still in flight
C22_Witness ==
  /\ (\E l \in LoadIds :
        /\ load[l].cancelled /\ load[l].pc = "create"
        /\ Visible(load[l].page)
        /\ page[load[l].page].key \notin {load[l].key, Null})
  /\ (\E n \in LogRunIds :
        /\ plantLog.runs[n].cancelled /\ LogRunning(n)
        /\ plantLog.mounted /\ ~plantLog.loading)

\* ------------------------------------------------ claims: concurrent loads
\* C23: of two loads for the same key that both read 'missing' before either
\* inserts, the one that inserts second also finishes without an error state
\* (no 'Error creating tree_entries row'), and the table has exactly one row
\* for the key.
C23_ConcurrentLoadsBothSucceed ==
  [][\A l \in LoadIds :
       (/\ load[l].pc = "create" /\ load'[l].pc # "create"
        /\ ~load[l].cancelled
        /\ HasKey(tree_entries, load[l].key)) =>
         /\ page'[load[l].page].error = ""
         /\ Cardinality(RowsFor(tree_entries', load[l].key)) = 1]_vars

\* ------------------------------------- claims: upsert, insert and the key
\* execution r wrote plants with the upsert whose id the sighting uses
Upserted(r) == \E w \in WritesOf(r) : w.table = "plants" /\ w.step = "upsert2"

\* C24: the plants upsert and the sightings insert are not one transaction:
\* an execution whose plants upsert succeeded and whose sightings insert failed
\* answers 500 'Sighting insert failed', and the plants row it wrote stays in
\* the table, under the key of its result, with no sighting of that execution.
C24_UpsertSurvivesFailedInsert ==
  \A r \in DOMAIN req :
    /\ (Done(r) /\ Upserted(r) /\ SightingWrites(r) = {}) =>
          /\ req[r].status = 500
          /\ req[r].error = "Sighting insert failed"
    /\ (Done(r) /\ req[r].error = "Sighting insert failed") =>
          /\ Upserted(r)
          /\ SightingWrites(r) = {}
          /\ \E j \in 1..Len(plants) :
               /\ plants[j].id = req[r].plant_id
               /\ plants[j].key = plantKey(req[r].best)

\* a failed insert after the upsert created the only plants row; no sighting
C24_Witness ==
  \E r \in DOMAIN req :
    /\ Done(r) /\ req[r].error = "Sighting insert failed"
    /\ \E w \in WritesOf(r) : w.table = "plants" /\ w.op = "insert"
    /\ Len(plants) = 1 /\ sightings = <<>>

\* PlantNet answered execution r OK, with no results
NoResults(r) ==
  /\ req[r].best = NoBest
  /\ \E i \in CallsTo(r, "plantnet") : sent[r][i].out = "ok"

\* C25: when PlantNet answers OK with no results the handler goes on: unless a
\* database write fails it answers 200 with name 'Unknown', confidence null and
\* key 'unknown', the plants row with key 'unknown' is upserted and the
\* sighting references it, so all such requests share one plant.
C25_NoResultsUnderUnknown ==
  /\ \A r \in DOMAIN req :
       NoResults(r) =>
         /\ commonName(req[r].best) = Unknown
         /\ confidence(req[r].best) = JsNull
         /\ Done(r) => \/ req[r].status = 200
                       \/ req[r].error \in {"Plant upsert failed", "Sighting insert failed"}
         /\ Ok200(r) =>
              /\ req[r].key = unknown
              /\ sightings[req[r].id].confidence = JsNull
              /\ \E j \in 1..Len(plants) :
                   /\ plants[j].key = unknown
                   /\ plants[j].common_name = Unknown
                   /\ plants[j].id = sightings[req[r].id].plant_id
  /\ \A r1, r2 \in DOMAIN req :
       (r1 # r2 /\ NoResults(r1) /\ NoResults(r2) /\ Ok200(r1) /\ Ok200(r2)) =>
         /\ req[r1].id # req[r2].id
         /\ sightings[req[r1].id].plant_id = sightings[req[r2].id].plant_id

\* two requests without results answered 200: one plant, two sightings
C25_Witness ==
  \E r1, r2 \in DOMAIN req :
    /\ r1 # r2 /\ NoResults(r1) /\ NoResults(r2) /\ Ok200(r1) /\ Ok200(r2)
    /\ Len(plants) = 1 /\ Len(sightings) = 2

\* C26: the plant key is never the empty string: whatever the names of the top
\* result, the key of a 200 response and every plants.key are non-empty, and
\* the detail page's route parameter for that key is non-empty.
C26_KeyNeverEmpty ==
  /\ \A i \in 1..Len(plants) : plants[i].key # <<>>
  /\ \A r \in DOMAIN req :
       Ok200(r) => /\ req[r].key # <<>>
                   /\ decodeURIComponent(encodeURIComponent(req[r].key)) # <<>>

\* ------------------------------------------------ claims: a failed save
\* the Cancel and Save buttons are rendered, and not disabled
ControlsShown(p) == Visible(p) /\ page[p].isEditing
ControlsEnabled(p) == ~page[p].saving

\* C27: after a failed save the page is still in edit mode and the Save and
\* Cancel controls are displayed and enabled, so the user can retry or cancel.
C27_FailedSaveCanRetry ==
  \A p \in PageIds :
    page[p].error = "Save failed" =>
      /\ page[p].isEditing
      /\ ControlsShown(p)
      /\ ControlsEnabled(p)

\* ------------------------------------------- claims: plant_log's columns
\* C28: the columns that the plant log page and the detail page select from
\* plant_log are columns of the view of the migrations: against the migrated
\* schema no load of either page ends with a column-not-found error.
C28_SelectedColumnsExist ==
  view = ViewColumns =>
    /\ plantLog.error # ColumnMissing
    /\ \A p \in PageIds :
         page[p].error # "Error loading plant_log: column does not exist"

====
